---- MODULE Spec2Model ----
(***************************************************************************)
(* Quiz application: quiz definitions (schemas.py), the loader, the        *)
(* scoring function and the Streamlit page script (main.py).               *)
(*                                                                         *)
(* Python positions are 0-based and are kept 0-based wherever they are     *)
(* data (option indices, the q_<i> keys, current_question); a TLA+         *)
(* sequence holding a Python list is indexed at position + 1.              *)
(***************************************************************************)
EXTENDS Integers, Sequences, FiniteSets, TLC

\* ------------------------------------------------------------------ bounds
\* longest questions list of a definition in the exam folder
MaxQuestions == 2
\* number of files in the exam folder
MaxFiles == 2
\* attempts started in one session
MaxAttempts == 2
\* TestResults in the history of one session
MaxResults == 2
\* largest question count the pass/fail computation is exercised with
MaxScoreQ == 50
\* longest questions list the scoring function is exercised with
MaxCalcQuestions == 2
\* most options of a question
MaxOptions == 3
\* longest correct_answers list of a definition
MaxCorrect == 2

\* ------------------------------------------------------- schemas.py values
None == "None"
SINGLE == "single"
MULTIPLE == "multiple"
QuestionType == {SINGLE, MULTIPLE}

Range(s) == {s[k] : k \in 1..Len(s)}

\* ---------------------------------------------------------------- floats
\* An IEEE-754 binary64 value v >= 0 is [zero |-> TRUE] or a 53-bit
\* mantissa (most significant bit first, leading bit 1) with an exponent:
\* v = mant * 2^exp.  Mantissas are bit sequences because they exceed the
\* integers TLC computes with; arithmetic on them goes through 13-bit limbs.
MantBits == 53
LimbBits == MantBits \div 4
LimbBase == 2^LimbBits

Zeros(n) == [k \in 1..n |-> 0]

FloatZero == [zero |-> TRUE, mant |-> <<>>, exp |-> 0]

\* number of bits of a natural number n < 2^30
BitLen(n) == CHOOSE L \in 0..30 : n < 2^L /\ (L = 0 \/ n >= 2^(L - 1))

\* bits of a natural number, most significant first (<<>> for 0)
NatBits(n) == [k \in 1..BitLen(n) |-> (n \div 2^(BitLen(n) - k)) % 2]

\* drop leading zero bits
Strip(b) ==
    LET ones == {k \in 1..Len(b) : b[k] = 1}
    IN  IF ones = {} THEN <<>>
        ELSE SubSeq(b, CHOOSE k \in ones : \A j \in ones : k <= j, Len(b))

\* b + 1 on a bit sequence, same length; carry out reported separately
IncBits(b) ==
    LET zs == {k \in 1..Len(b) : b[k] = 0}
    IN  IF zs = {} THEN [bits |-> Zeros(Len(b)), carry |-> 1]
        ELSE LET z == CHOOSE k \in zs : \A j \in zs : j <= k
             IN  [bits  |-> [k \in 1..Len(b) |->
                                IF k < z THEN b[k] ELSE IF k = z THEN 1 ELSE 0],
                  carry |-> 0]

\* round-to-nearest, ties-to-even of the value bits * 2^exp (sticky: a
\* non-zero remainder lies below the last bit of bits); bits starts with 1
RoundBits(bits, exp, sticky) ==
    IF Len(bits) <= MantBits
    THEN [zero |-> FALSE, mant |-> bits \o Zeros(MantBits - Len(bits)),
          exp |-> exp - (MantBits - Len(bits))]
    ELSE LET keep == SubSeq(bits, 1, MantBits)
             rest == SubSeq(bits, MantBits + 1, Len(bits))
             e    == exp + Len(rest)
             half == rest[1] = 1
             more == sticky \/ \E k \in 2..Len(rest) : rest[k] = 1
             up   == half /\ (more \/ keep[MantBits] = 1)
             inc  == IncBits(keep)
         IN  IF ~up THEN [zero |-> FALSE, mant |-> keep, exp |-> e]
             ELSE IF inc.carry = 0
                  THEN [zero |-> FALSE, mant |-> inc.bits, exp |-> e]
                  ELSE [zero |-> FALSE, mant |-> <<1>> \o Zeros(MantBits - 1),
                        exp |-> e + 1]

\* the bits of a sequence of limbs, each limb LimbBits bits
LimbsToBits(limbs) ==
    [k \in 1..(Len(limbs) * LimbBits) |->
        (limbs[((k - 1) \div LimbBits) + 1]
            \div 2^(LimbBits - 1 - ((k - 1) % LimbBits))) % 2]

\* value of a bit sequence of at most LimbBits bits
RECURSIVE BitsVal(_)
BitsVal(b) ==
    IF b = <<>> THEN 0 ELSE 2 * BitsVal(SubSeq(b, 1, Len(b) - 1)) + b[Len(b)]

\* the limbs of a bit sequence (the first limb holds the leftover high bits)
BitsToLimbs(b) ==
    LET n   == (Len(b) + LimbBits - 1) \div LimbBits
        pad == Zeros(n * LimbBits - Len(b)) \o b
    IN  [j \in 1..n |->
            BitsVal(SubSeq(pad, (j - 1) * LimbBits + 1, j * LimbBits))]

\* long division in base LimbBase: n more quotient limbs of r / m (r < m),
\* with the remainder left after them
RECURSIVE DivSteps(_, _, _, _)
DivSteps(r, m, n, acc) ==
    IF n = 0 THEN [limbs |-> acc, rem |-> r]
    ELSE DivSteps((LimbBase * r) % m, m, n - 1,
                  Append(acc, (LimbBase * r) \div m))

\* the float  a / b  of two integers, 0 <= a, 0 < b (Python int / int)
FloatDiv(a, b) ==
    IF a = 0 THEN FloatZero
    ELSE LET ip   == NatBits(a \div b)
             n    == ((MantBits + 2 + BitLen(b)) \div LimbBits) + 1
             d    == DivSteps(a % b, b, n, <<>>)
             bits == Strip(ip \o LimbsToBits(d.limbs))
         IN  RoundBits(bits, 0 - n * LimbBits, d.rem # 0)

\* limbs * c for a small natural c, by schoolbook multiplication from the
\* least significant limb; the result has one more limb
RECURSIVE MulSmall(_, _, _)
MulSmall(limbs, c, carry) ==
    IF limbs = <<>> THEN <<carry>>
    ELSE LET t == limbs[Len(limbs)] * c + carry
         IN  Append(MulSmall(SubSeq(limbs, 1, Len(limbs) - 1), c,
                             t \div LimbBase),
                    t % LimbBase)

\* bits * c as bits
MulBits(b, c) == Strip(LimbsToBits(MulSmall(BitsToLimbs(b), c, 0)))

\* the float  x * c  for a float x and a small natural c >= 1
FloatMulInt(x, c) ==
    IF x.zero THEN FloatZero
    ELSE RoundBits(MulBits(x.mant, c), x.exp, FALSE)

\* lexicographic a >= b on bit sequences of equal length
BitsGe(a, b) ==
    LET diff == {k \in 1..Len(a) : a[k] # b[k]}
    IN  IF diff = {} THEN TRUE
        ELSE LET k == CHOOSE i \in diff : \A j \in diff : i <= j
             IN  a[k] > b[k]

\* x >= p for a float x and an integer p (Python float >= int, exact)
FloatGeInt(x, p) ==
    IF p <= 0 THEN TRUE
    ELSE IF x.zero THEN FALSE
    ELSE LET pb == NatBits(p)
             \* x has MantBits + exp bits before the binary point
             xl == MantBits + x.exp
         IN  IF xl # Len(pb) THEN xl > Len(pb)
             ELSE BitsGe(x.mant, pb \o Zeros(MantBits - Len(pb)))

\* ------------------------------------------------------------ schemas.py
\* A quiz definition (the parsed JSON of one file) is a record
\*   [name, questions, passing_score]  with passing_score = <<>> when the
\* key is absent and <<n>> when it is n, and a question definition a record
\*   [text, type, options, correct_answers, explanation].
\* description and time_limit are carried by no operation modelled here and
\* are left out.

\* the validator without the rule for the single type
validate_correct_answers_AnyCount(v, values) ==
    IF "options" \in DOMAIN values
    THEN /\ v # <<>>
         /\ \A k \in 1..Len(v) :
                ~(v[k] < 0 \/ v[k] > Len(values.options) - 1)
    ELSE TRUE

\* Question.validate_correct_answers: TRUE when the validator returns v,
\* FALSE when it raises ValueError.  values holds the fields validated
\* before correct_answers; a field that failed validation is missing from it.
validate_correct_answers(v, values) ==
    IF "options" \in DOMAIN values
    THEN /\ v # <<>>
         /\ \A k \in 1..Len(v) :
                ~(v[k] < 0 \/ v[k] > Len(values.options) - 1)
         /\ ~(("type" \in DOMAIN values /\ values.type = SINGLE) /\ Len(v) # 1)
    ELSE TRUE

\* the fields of a question definition that pass their own validation
\* before correct_answers is validated (declaration order: type, options)
ValidatedFields(d) ==
    LET ty == IF d.type \in QuestionType THEN [type |-> d.type] ELSE <<>>
        op == IF Len(d.options) >= 2 THEN [options |-> d.options] ELSE <<>>
    IN  [f \in DOMAIN ty \cup DOMAIN op |->
            IF f \in DOMAIN ty THEN ty[f] ELSE op[f]]

\* Question(**d) succeeds
QuestionOk(d) ==
    /\ d.type \in QuestionType
    /\ Len(d.options) >= 2
    /\ validate_correct_answers(d.correct_answers, ValidatedFields(d))

DefaultPassingScore == 80

\* passing_score of Test(**d): the default when the key is absent
PassingScoreOf(d) ==
    IF d.passing_score = <<>> THEN DefaultPassingScore ELSE d.passing_score[1]

\* Test(**d) succeeds
TestOk(d) ==
    /\ Len(d.questions) >= 1
    /\ \A k \in 1..Len(d.questions) : QuestionOk(d.questions[k])
    /\ PassingScoreOf(d) >= 0
    /\ PassingScoreOf(d) <= 100

\* the Test object Test(**d) builds, for a definition with TestOk(d)
Test(d) ==
    [name |-> d.name, questions |-> d.questions,
     passing_score |-> PassingScoreOf(d)]

\* ------------------------------------------------ main.py: calculate_results
\* the lookup with the key off by one: user_answers.get(i + 1, [])
UserAnswerAt_OffByOne(user_answers, i) ==
    IF i + 1 \in DOMAIN user_answers THEN user_answers[i + 1] ELSE <<>>

\* user_answers.get(i, [])
UserAnswerAt(user_answers, i) ==
    IF i \in DOMAIN user_answers THEN user_answers[i] ELSE <<>>

\* without the len(user_answer) == 1 test: any selected index that is correct
IsCorrectSingle_AnyMatch(question, user_answer) ==
    \E k \in 1..Len(user_answer) :
        user_answer[k] \in Range(question.correct_answers)

IsCorrectSingle(question, user_answer) ==
    IF Len(user_answer) = 1
    THEN user_answer[1] \in Range(question.correct_answers)
    ELSE FALSE

\* issuperset instead of ==: extra selections accepted
IsCorrectMultiple_Superset(question, user_answer) ==
    Range(question.correct_answers) \subseteq Range(user_answer)

IsCorrectMultiple(question, user_answer) ==
    Range(user_answer) = Range(question.correct_answers)

IsCorrect(question, user_answer) ==
    IF question.type = SINGLE
    THEN IsCorrectSingle(question, user_answer)
    ELSE IsCorrectMultiple(question, user_answer)

\* the dict with correct_answer taken from the taker's selection
DetailedAnswer_EchoUser(question, user_answer) ==
    [question_text  |-> question.text,
     question_type  |-> question.type,
     user_answer    |-> user_answer,
     correct_answer |-> user_answer,
     is_correct     |-> IsCorrect(question, user_answer),
     explanation    |-> question.explanation]

\* the dict appended to detailed_answers for the question at position i
DetailedAnswer(question, user_answer) ==
    [question_text  |-> question.text,
     question_type  |-> question.type,
     user_answer    |-> user_answer,
     correct_answer |-> question.correct_answers,
     is_correct     |-> IsCorrect(question, user_answer),
     explanation    |-> question.explanation]

\* the for loop over enumerate(test.questions), from position i on
RECURSIVE ScoreLoop(_, _, _, _, _)
ScoreLoop(test, user_answers, i, score, detailed_answers) ==
    IF i >= Len(test.questions)
    THEN [score |-> score, detailed_answers |-> detailed_answers]
    ELSE LET d == DetailedAnswer(test.questions[i + 1],
                                 UserAnswerAt(user_answers, i))
         IN  ScoreLoop(test, user_answers, i + 1,
                       IF d.is_correct THEN score + 1 ELSE score,
                       Append(detailed_answers, d))

\* percentage = (score / max_score) * 100 if max_score > 0 else 0
Percentage(score, max_score) ==
    IF max_score > 0 THEN FloatMulInt(FloatDiv(score, max_score), 100)
    ELSE FloatZero

\* passed = percentage >= test.passing_score
Passed(percentage, passing_score) == FloatGeInt(percentage, passing_score)

\* the TestResult (its timestamp, the wall clock at the call, left out)
calculate_results(test, user_answers) ==
    LET max_score  == Len(test.questions)
        loop       == ScoreLoop(test, user_answers, 0, 0, <<>>)
        percentage == Percentage(loop.score, max_score)
    IN  [test_name  |-> test.name,
         score      |-> loop.score,
         max_score  |-> max_score,
         percentage |-> percentage,
         passed     |-> Passed(percentage, test.passing_score),
         answers    |-> loop.detailed_answers]

\* -------------------------------------------------- main.py: the loader
\* tests[test.name] = test
DictSet(d, key, value) ==
    [k \in DOMAIN d \cup {key} |-> IF k = key THEN value ELSE d[k]]

\* the for loop of load_all_tests over json_files, from file k (1-based)
\* on: load_test_from_file raises for a definition that Test(**data)
\* rejects, the except clause reports it and the loop goes on
RECURSIVE LoadLoop(_, _, _)
LoadLoop(json_files, k, tests) ==
    IF k > Len(json_files) THEN tests
    ELSE LoadLoop(json_files, k + 1,
                  IF TestOk(json_files[k])
                  THEN DictSet(tests, json_files[k].name, Test(json_files[k]))
                  ELSE tests)

load_all_tests(json_files) == LoadLoop(json_files, 1, <<>>)

\* ------------------------------------------------------------------ state
VARIABLES
    pc,             \* "app", or the position of a direct call of a function
    arg,            \* the arguments of the direct call
    ret,            \* its return value
    exam,           \* the definitions of the *.json files, in glob order
    session_state,  \* st.session_state
    screen,         \* what the last script run rendered
    ghost           \* history of the session, for stating the properties

vars == <<pc, arg, ret, exam, session_state, screen, ghost>>

\* init_session_state's defaults; q, radio and check hold the q_<i>,
\* radio_<i> and check_<i>_<j> keys
SessionDefaults ==
    [tests             |-> <<>>,
     current_test      |-> None,
     test_started      |-> FALSE,
     test_completed    |-> FALSE,
     current_question  |-> 0,
     user_answers      |-> <<>>,
     test_results      |-> <<>>,
     shuffle_questions |-> FALSE,
     q                 |-> <<>>,
     radio             |-> <<>>,
     check             |-> {}]

\* page: what the run rendered; questions: the display order of the run (the
\* local list questions of main, as 1-based positions in test.questions);
\* buttons: the buttons the run rendered
NoScreen == [page |-> None, questions |-> <<>>, buttons |-> {}]

GhostInit ==
    [loaded    |-> FALSE,  \* load_all_tests has run
     attempts  |-> 0,      \* attempts started
     completed |-> 0,      \* attempts completed (test_completed set)
     calls     |-> 0,      \* calls of calculate_results
     aborted   |-> <<>>,   \* <<current_question>> at the last abort
     shown     |-> <<>>]   \* key i |-> the question displayed when the taker
                           \* made the selection recorded under q_<i>

AppIdle ==
    /\ exam = <<>>
    /\ session_state = SessionDefaults
    /\ screen = NoScreen
    /\ ghost = GhostInit

\* ------------------------------------------ main.py: display_question
\* Widget state.  radio holds the radio_<i> key, as key i |-> <<option
\* index>>; check is the set of boxes <<i, j>> whose check_<i>_<j> key is
\* True (a key the code initialises to False reads like an absent one).
\* Streamlit deletes the keys of a widget that a run does not render, so a
\* run leaves the keys of the one question it displayed and no others.

\* the elements of a set of integers in ascending order
SortedSeq(S) ==
    [k \in 1..Cardinality(S) |->
        CHOOSE x \in S : Cardinality({y \in S : y < x}) = k - 1]

\* The value st.radio returns, as <<>> (None) or <<option index>>: the
\* option the taker clicked under this key while it is an option of the
\* question now rendered, else the option at the index argument.
RadioValue(radio, key, n, index) ==
    IF key \in DOMAIN radio /\ radio[key][1] < n THEN radio[key] ELSE index

\* the widget keys a run leaves when it rendered no question
NoWidgets(ss) == [ss EXCEPT !.radio = <<>>, !.check = {}]

\* display_question(question, question_index, st.session_state.user_answers)
\* on session state ss: the state it leaves, and whether it raised (st.radio
\* raises for an index argument that is no index of options)
display_question(ss, question, question_index) ==
    LET n  == Len(question.options)
        q1 == IF question_index \in DOMAIN ss.q THEN ss.q
              ELSE DictSet(ss.q, question_index, <<>>)
    IN  IF question.type = SINGLE
        THEN LET index == IF q1[question_index] = <<>> THEN <<>>
                          ELSE <<q1[question_index][1]>>
             IN  IF index # <<>> /\ index[1] >= n
                 THEN [ss |-> NoWidgets([ss EXCEPT !.q = q1]), exc |-> TRUE]
                 ELSE LET selected ==
                              RadioValue(ss.radio, question_index, n, index)
                      IN  [ss |-> [ss EXCEPT
                                !.q = IF selected # <<>>
                                      THEN DictSet(q1, question_index, selected)
                                      ELSE q1,
                                !.user_answers =
                                      IF selected # <<>>
                                      THEN DictSet(@, question_index, selected)
                                      ELSE @,
                                !.radio = IF selected # <<>>
                                          THEN DictSet(<<>>, question_index, selected)
                                          ELSE <<>>,
                                !.check = {}],
                           exc |-> FALSE]
        ELSE LET boxes == {<<question_index, i>> : i \in 0..(n - 1)}
                 selected_indices ==
                     SortedSeq({i \in 0..(n - 1) :
                                   <<question_index, i>> \in ss.check})
             IN  [ss |-> [ss EXCEPT
                       !.q = DictSet(q1, question_index, selected_indices),
                       !.user_answers =
                             DictSet(@, question_index, selected_indices),
                       !.radio = <<>>,
                       !.check = @ \cap boxes],
                  exc |-> FALSE]

\* ------------------------------------------------ main.py: show_results
\* show_results raises IndexError at test.questions[i].options[idx] for a
\* recorded index idx that is no index of question i's options
ShowResultsRaises(result, test) ==
    \E i \in 1..Len(result.answers) :
        \E k \in 1..Len(result.answers[i].user_answer) :
            result.answers[i].user_answer[k] >= Len(test.questions[i].options)

\* ---------------------------------------------- main.py: main, one run
\* A script run is main() from top to bottom on the session state, for one
\* browser event ev = [type, menu, shuffle, name]: type is the button
\* clicked ("none" for a run without one), menu and shuffle the values of the
\* sidebar radio and of the shuffle checkbox, name the selectbox's value.
\* seed is the outcome of random.shuffle.  The run's outcome is
\* [ss, gh, scr, rerun, exc]: rerun when it ended in st.rerun(), exc when it
\* ended in an exception.
HOME == "home"
TEST == "test"
HISTORY == "history"
Pages == {HOME, TEST, HISTORY}

Event(type, menu, shuffle, name) ==
    [type |-> type, menu |-> menu, shuffle |-> shuffle, name |-> name]

\* random.shuffle(questions) on the copy of test.questions: the order of
\* 1..n that the seed, a permutation of 1..MaxQuestions, induces
ShuffleOrders(n) ==
    {p \in [1..n -> 1..n] : \A i, j \in 1..n : p[i] = p[j] => i = j}

Seeds == ShuffleOrders(MaxQuestions)

Pos(seed, x) == CHOOSE k \in 1..Len(seed) : seed[k] = x

Shuffled(n, seed) ==
    [k \in 1..n |->
        CHOOSE x \in 1..n :
            Cardinality({y \in 1..n : Pos(seed, y) < Pos(seed, x)}) = k - 1]

\* lines 440-443: questions = test.questions.copy(), shuffled when asked
DisplayOrder(ss, test, seed) ==
    IF ss.shuffle_questions THEN Shuffled(Len(test.questions), seed)
    ELSE [k \in 1..Len(test.questions) |-> k]

\* lines 313-324: the abort button of the sidebar
SidebarButtons(ss) ==
    IF ss.test_started /\ ss.current_test \in DOMAIN ss.tests
    THEN {"abort"} ELSE {}

\* the guard of the results block
ResultsDue(ss) == ss.test_completed /\ ss.test_started

\* lines 555-564: the result of the attempt is appended to the history and
\* shown; the flags are set once show_results has returned
ResultsShown(r, test, result) ==
    LET ss1 == [r.ss EXCEPT !.test_results = Append(@, result)]
        gh1 == [r.gh EXCEPT !.calls = @ + 1]
    IN  IF ShowResultsRaises(result, test)
        THEN [r EXCEPT !.ss = ss1, !.gh = gh1, !.exc = TRUE]
        ELSE [r EXCEPT !.ss = [ss1 EXCEPT !.test_completed = TRUE,
                                          !.test_started = FALSE],
                       !.gh = gh1]

\* lines 546-553: final_answers, the q_<i> keys that session_state holds
FinalAnswers(ss, test) ==
    [i \in {k \in 0..(Len(test.questions) - 1) : k \in DOMAIN ss.q} |-> ss.q[i]]

\* lines 542-564: the results block at the end of main, on the outcome r
\* of the page body; a body that ended in st.rerun() or in an exception
\* does not reach it
ResultsBlock(r) ==
    IF ~r.rerun /\ ~r.exc /\ ResultsDue(r.ss)
       /\ r.ss.current_test \in DOMAIN r.ss.tests
    THEN ResultsShown(r, r.ss.tests[r.ss.current_test],
                      calculate_results(r.ss.tests[r.ss.current_test],
                          FinalAnswers(r.ss, r.ss.tests[r.ss.current_test])))
    ELSE r

\* the start handler without the reset of current_question
SelectPage_KeepPosition(ss, gh, ev) ==
    LET ss1 == NoWidgets([ss EXCEPT !.shuffle_questions = ev.shuffle])
        scr == [page |-> TEST, questions |-> <<>>, buttons |-> {"start"}]
    IN  IF ev.type = "start" /\ ev.name \in DOMAIN ss.tests
        THEN [ss |-> [ss1 EXCEPT !.current_test = ev.name,
                                 !.test_started = TRUE,
                                 !.user_answers = <<>>,
                                 !.test_completed = FALSE,
                                 !.q = <<>>],
              gh |-> [gh EXCEPT !.attempts = @ + 1, !.shown = <<>>],
              scr |-> scr, rerun |-> TRUE, exc |-> FALSE]
        ELSE [ss |-> ss1, gh |-> gh, scr |-> scr, rerun |-> FALSE, exc |-> FALSE]

\* lines 377-428: the page that selects and starts a test
SelectPage(ss, gh, ev) ==
    LET ss1 == NoWidgets([ss EXCEPT !.shuffle_questions = ev.shuffle])
        scr == [page |-> TEST, questions |-> <<>>, buttons |-> {"start"}]
    IN  IF ev.type = "start" /\ ev.name \in DOMAIN ss.tests
        THEN [ss |-> [ss1 EXCEPT !.current_test = ev.name,
                                 !.test_started = TRUE,
                                 !.current_question = 0,
                                 !.user_answers = <<>>,
                                 !.test_completed = FALSE,
                                 !.q = <<>>],
              gh |-> [gh EXCEPT !.attempts = @ + 1, !.shown = <<>>],
              scr |-> scr, rerun |-> TRUE, exc |-> FALSE]
        ELSE [ss |-> ss1, gh |-> gh, scr |-> scr, rerun |-> FALSE, exc |-> FALSE]

\* lines 464-498: the navigation buttons under the question, n questions
NavButtons(ss, n) ==
    (IF ss.current_question > 0 THEN {"back"} ELSE {})
    \cup (IF ss.current_question < n - 1 THEN {"next"} ELSE {"finish"})
    \cup {"skip"}

Answered(ss, i) == i \in DOMAIN ss.q /\ ss.q[i] # <<>>

\* lines 464-498: the handlers of the navigation buttons, after
\* display_question left the outcome shown; n questions in the order
\* questions, side the sidebar's buttons
Navigate(gh, ev, questions, n, side, shown) ==
    LET s       == shown.ss
        cq      == shown.ss.current_question
        buttons == NavButtons(shown.ss, n)
        stay    == [ss |-> shown.ss, gh |-> gh,
                    scr |-> [page |-> "question", questions |-> questions,
                             buttons |-> side \cup NavButtons(shown.ss, n)],
                    rerun |-> FALSE, exc |-> FALSE]
    IN  IF shown.exc
        THEN [ss |-> s, gh |-> gh,
              scr |-> [page |-> "exception", questions |-> <<>>,
                       buttons |-> side],
              rerun |-> FALSE, exc |-> TRUE]
        ELSE IF ev.type = "back" /\ "back" \in buttons
        THEN [stay EXCEPT !.ss.current_question = cq - 1, !.rerun = TRUE]
        ELSE IF ev.type = "next" /\ "next" \in buttons /\ Answered(s, cq)
        THEN [stay EXCEPT !.ss.current_question = cq + 1, !.rerun = TRUE]
        ELSE IF ev.type = "finish" /\ "finish" \in buttons
                /\ \A i \in 0..(n - 1) : Answered(s, i)
        THEN [stay EXCEPT !.ss.test_completed = TRUE,
                          !.gh.completed = @ + 1, !.rerun = TRUE]
        ELSE IF ev.type = "skip" /\ cq < n - 1
        THEN [stay EXCEPT !.ss.current_question = cq + 1, !.rerun = TRUE]
        ELSE stay

\* lines 446-498: the question at current_question of the order questions
CurrentQuestion(ss, gh, ev, test, questions) ==
    IF ss.current_question >= Len(questions)
    THEN \* questions[current_question] raises IndexError
         [ss |-> NoWidgets(ss), gh |-> gh,
          scr |-> [page |-> "exception", questions |-> <<>>,
                   buttons |-> SidebarButtons(ss)],
          rerun |-> FALSE, exc |-> TRUE]
    ELSE Navigate(gh, ev, questions, Len(questions), SidebarButtons(ss),
                  display_question(ss,
                      test.questions[questions[ss.current_question + 1]],
                      ss.current_question))

\* lines 431-498: the page of a test in progress
QuestionPage(ss, gh, ev, seed) ==
    IF ss.current_test \notin DOMAIN ss.tests
    THEN [ss |-> NoWidgets([ss EXCEPT !.test_started = FALSE]), gh |-> gh,
          scr |-> NoScreen, rerun |-> TRUE, exc |-> FALSE]
    ELSE CurrentQuestion(ss, gh, ev, ss.tests[ss.current_test],
                         DisplayOrder(ss, ss.tests[ss.current_test], seed))

\* main(): the sidebar, the page of the menu, the results block
Main(ss, gh, ev, seed) ==
    IF DOMAIN ss.tests = {}
    THEN [ss |-> NoWidgets(ss), gh |-> gh,
          scr |-> [page |-> "no tests", questions |-> <<>>, buttons |-> {}],
          rerun |-> FALSE, exc |-> FALSE]
    ELSE IF ev.type = "abort" /\ "abort" \in SidebarButtons(ss)
    THEN [ss |-> NoWidgets([ss EXCEPT !.test_started = FALSE,
                                      !.current_test = None]),
          gh |-> [gh EXCEPT !.aborted = <<ss.current_question>>],
          scr |-> NoScreen, rerun |-> TRUE, exc |-> FALSE]
    ELSE ResultsBlock(
             IF ss.test_started THEN QuestionPage(ss, gh, ev, seed)
             ELSE IF ev.menu = TEST THEN SelectPage(ss, gh, ev)
             ELSE [ss |-> NoWidgets(ss), gh |-> gh,
                   scr |-> [page |-> ev.menu, questions |-> <<>>,
                            buttons |-> {}],
                   rerun |-> FALSE, exc |-> FALSE])

\* the run that follows a run ending in st.rerun(): at once, with no event
Again(r, ev, seed) ==
    IF r.rerun
    THEN Main(r.ss, r.gh, [ev EXCEPT !.type = "none"], seed)
    ELSE r

\* the runs one browser event causes: the run that handles it and, while a
\* run ends in st.rerun(), the run that follows
Runs(ss, gh, ev, seed1, seed2) ==
    Again(Again(Main(ss, gh, ev, seed1), ev, seed2), ev, seed1)

\* ------------------------------------------------- inputs of direct calls
SeqsUpTo(S, n) == UNION {[1..k -> S] : k \in 0..n}

OptionTexts(n) == [k \in 1..n |-> "option " \o ToString(k)]

\* question definitions, valid and invalid, without text and explanation
QuestionBodies ==
    [type           : QuestionType,
     options        : {OptionTexts(n) : n \in 1..MaxOptions},
     correct_answers: SeqsUpTo(0..MaxOptions, MaxCorrect)]

\* the question definition at position k (1-based) of a definition
QuestionAt(body, k) ==
    [text           |-> "question " \o ToString(k),
     type           |-> body.type,
     options        |-> body.options,
     correct_answers|-> body.correct_answers,
     explanation    |-> IF k % 2 = 1 THEN "because " \o ToString(k) ELSE None]

ValidBodies == {b \in QuestionBodies : QuestionOk(QuestionAt(b, 1))}

\* a selection as display_question or any other caller may submit it
Selections ==
    SeqsUpTo(0..(MaxOptions - 1), 2) \cup {[k \in 1..MaxOptions |-> k - 1]}

\* answer mappings for n questions: every position absent or a selection
AnswerMaps(n) ==
    UNION {[D -> Selections] : D \in SUBSET (0..(n - 1))}

CalcPassingScores == {<<>>, <<50>>}

CalcTests ==
    UNION {{Test([name |-> "quiz",
                  questions |-> [k \in 1..n |-> QuestionAt(bs[k], k)],
                  passing_score |-> p]) :
               bs \in [1..n -> ValidBodies], p \in CalcPassingScores} :
           n \in 1..MaxCalcQuestions}

\* ----------------------------------- direct calls of calculate_results
InitCalc ==
    /\ pc = "call"
    /\ \E test \in CalcTests :
       \E user_answers \in AnswerMaps(Len(test.questions)) :
           arg = [test |-> test, user_answers |-> user_answers]
    /\ ret = None
    /\ AppIdle

Calc ==
    /\ pc = "call"
    /\ ret' = calculate_results(arg.test, arg.user_answers)
    /\ pc' = "done"
    /\ UNCHANGED <<arg, exam, session_state, screen, ghost>>

NextCalc == Calc

SpecCalc == InitCalc /\ [][NextCalc]_vars

\* ------------------- the pass/fail lines of calculate_results on their own
InitPct ==
    /\ pc = "call"
    /\ \E max_score \in 1..MaxScoreQ :
       \E score \in 0..max_score :
       \E passing_score \in 0..100 :
           arg = [score |-> score, max_score |-> max_score,
                  passing_score |-> passing_score]
    /\ ret = None
    /\ AppIdle

Pct ==
    /\ pc = "call"
    /\ LET percentage == Percentage(arg.score, arg.max_score)
       IN  ret' = [percentage |-> percentage,
                   passed |-> Passed(percentage, arg.passing_score)]
    /\ pc' = "done"
    /\ UNCHANGED <<arg, exam, session_state, screen, ghost>>

NextPct == Pct

SpecPct == InitPct /\ [][NextPct]_vars

\* ------------------------------------------------------ the application
\* question definitions of the exam folder
S2 == [type |-> SINGLE, options |-> OptionTexts(2), correct_answers |-> <<1>>]
M3 == [type |-> MULTIPLE, options |-> OptionTexts(3), correct_answers |-> <<0, 2>>]
SingleTwoCorrect ==
    [type |-> SINGLE, options |-> OptionTexts(2), correct_answers |-> <<0, 1>>]
IndexOutOfRange ==
    [type |-> MULTIPLE, options |-> OptionTexts(2), correct_answers |-> <<0, 2>>]
NegativeIndex ==
    [type |-> MULTIPLE, options |-> OptionTexts(2), correct_answers |-> <<0 - 1>>]
NoCorrect ==
    [type |-> MULTIPLE, options |-> OptionTexts(2), correct_answers |-> <<>>]
OneOption ==
    [type |-> SINGLE, options |-> OptionTexts(1), correct_answers |-> <<0>>]
UnknownType ==
    [type |-> "essay", options |-> OptionTexts(2), correct_answers |-> <<0>>]

Definition(name, bodies, passing_score) ==
    [name |-> name,
     questions |-> [k \in 1..Len(bodies) |-> QuestionAt(bodies[k], k)],
     passing_score |-> passing_score]

\* definitions that satisfy every constraint of schemas.py
QuizA == Definition("A", <<S2, M3>>, <<50>>)
QuizB == Definition("B", <<S2>>, <<>>)
QuizB2 == Definition("B", <<M3>>, <<100>>)

\* definitions that violate one constraint each
BrokenDefinitions ==
    {Definition("X", <<>>, <<50>>),
     Definition("X", <<S2>>, <<101>>),
     Definition("X", <<S2>>, <<0 - 1>>),
     Definition("X", <<SingleTwoCorrect>>, <<>>),
     Definition("X", <<S2, IndexOutOfRange>>, <<>>),
     Definition("X", <<NegativeIndex>>, <<>>),
     Definition("X", <<S2, NoCorrect>>, <<>>),
     Definition("X", <<OneOption, S2>>, <<>>),
     Definition("X", <<UnknownType>>, <<>>)}

\* the exam folders of the model, each at most MaxFiles files in glob order
ExamFolders ==
    {f \in {<<>>, <<QuizA, QuizB>>, <<QuizB, QuizB2>>, <<QuizB2, QuizB>>}
           \cup {<<d>> : d \in BrokenDefinitions}
           \cup {<<Definition("X", <<SingleTwoCorrect>>, <<>>), QuizB>>,
                 <<QuizB, Definition("X", <<S2, IndexOutOfRange>>, <<>>)>>} :
        Len(f) <= MaxFiles}

Init ==
    /\ pc = "app"
    /\ arg = None
    /\ ret = None
    /\ exam \in ExamFolders
    /\ session_state = SessionDefaults
    /\ screen = NoScreen
    /\ ghost = GhostInit

\* the state an event leaves: the outcome of its runs
Commit(r) ==
    /\ session_state' = r.ss
    /\ ghost' = r.gh
    /\ screen' = r.scr
    /\ UNCHANGED <<pc, arg, ret, exam>>

\* an event can reach the script: the session has loaded its tests, and the
\* history is within the model's bound
Live ==
    /\ pc = "app"
    /\ ghost.loaded
    /\ Len(session_state.test_results) < MaxResults

NoClick(menu, shuffle) == Event("none", menu, shuffle, None)

\* the outcomes of random.shuffle that a run of session state ss can see
SeedsOf(ss) ==
    IF ss.shuffle_questions THEN Seeds ELSE {[k \in 1..MaxQuestions |-> k]}

\* the first run of the session: init_session_state, load_tests_cached
\* (load_all_tests, whose value the cache returns to every later run), and
\* the home page
Boot ==
    /\ pc = "app"
    /\ ~ghost.loaded
    /\ \E seed \in SeedsOf(session_state) :
        Commit(Runs([session_state EXCEPT !.tests = load_all_tests(exam)],
                    [ghost EXCEPT !.loaded = TRUE],
                    NoClick(HOME, FALSE), seed, seed))

\* a run without a button: the taker changes the sidebar menu or the
\* shuffle checkbox, or the page reloads
Rerun ==
    /\ Live
    /\ \E menu \in Pages, shuffle \in BOOLEAN, seed \in SeedsOf(session_state) :
        Commit(Runs(session_state, ghost, NoClick(menu, shuffle), seed, seed))

\* the taker clicks the start button of the select page
Start ==
    /\ Live
    /\ ~session_state.test_started
    /\ ghost.attempts < MaxAttempts
    /\ \E name \in DOMAIN session_state.tests, shuffle \in BOOLEAN :
       \E seed \in SeedsOf([shuffle_questions |-> shuffle]) :
        Commit(Runs(session_state, ghost, Event("start", TEST, shuffle, name),
                    seed, seed))

\* the runs after a click on a button of the question page: the run that
\* handles the click shuffles with seed1, the run after its st.rerun() with
\* seed2
Click(button, seed1, seed2) ==
    Runs(session_state, ghost,
         Event(button, TEST, session_state.shuffle_questions, None),
         seed1, seed2)

\* lines 465-468: the taker clicks the back button
Back ==
    /\ Live
    /\ "back" \in screen.buttons
    /\ \E seed1 \in SeedsOf(session_state), seed2 \in SeedsOf(session_state) :
        Commit(Click("back", seed1, seed2))

\* lines 472-478: the taker clicks the next button
NextQuestion ==
    /\ Live
    /\ "next" \in screen.buttons
    /\ \E seed1 \in SeedsOf(session_state), seed2 \in SeedsOf(session_state) :
        Commit(Click("next", seed1, seed2))

\* lines 480-491: the taker clicks the finish button
Finish ==
    /\ Live
    /\ "finish" \in screen.buttons
    /\ \E seed1 \in SeedsOf(session_state), seed2 \in SeedsOf(session_state) :
        Commit(Click("finish", seed1, seed2))

\* lines 494-498: the taker clicks the skip button
Skip ==
    /\ Live
    /\ "skip" \in screen.buttons
    /\ \E seed1 \in SeedsOf(session_state), seed2 \in SeedsOf(session_state) :
        Commit(Click("skip", seed1, seed2))

\* the abort button of the sidebar; the run that follows renders the page
\* of the sidebar menu
Abort ==
    /\ Live
    /\ "abort" \in screen.buttons
    /\ \E menu \in Pages, shuffle \in BOOLEAN :
        Commit(Runs(session_state, ghost, Event("abort", menu, shuffle, None),
                    [k \in 1..MaxQuestions |-> k], [k \in 1..MaxQuestions |-> k]))

\* the question on the screen, as a 0-based position in test.questions
Displayed ==
    screen.questions[session_state.current_question + 1] - 1

OnQuestion(type) ==
    /\ Live
    /\ session_state.test_started
    /\ screen.page = "question"
    /\ session_state.tests[session_state.current_test]
           .questions[Displayed + 1].type = type

DisplayedOptions ==
    Len(session_state.tests[session_state.current_test]
            .questions[Displayed + 1].options)

\* History: the outcome r of the runs after the taker made a selection on
\* the question on the screen; when q_<key> now holds that selection, it was
\* made on the question Displayed.
Recorded(r, key, selection) ==
    [r EXCEPT !.gh.shown =
        IF key \in DOMAIN r.ss.q /\ r.ss.q[key] = selection
        THEN DictSet(@, key, Displayed)
        ELSE [i \in DOMAIN @ \ {key} |-> @[i]]]

\* the taker selects option k of the radio on the screen
Pick ==
    /\ OnQuestion(SINGLE)
    /\ \E k \in 0..(DisplayedOptions - 1) :
       \E seed \in SeedsOf(session_state) :
        LET key == session_state.current_question
            r   == Runs([session_state EXCEPT !.radio = DictSet(<<>>, key, <<k>>)],
                        ghost, NoClick(TEST, session_state.shuffle_questions),
                        seed, seed)
        IN  Commit(Recorded(r, key, <<k>>))

\* the taker toggles checkbox j of the question on the screen
Toggle ==
    /\ OnQuestion(MULTIPLE)
    /\ \E j \in 0..(DisplayedOptions - 1) :
       \E seed \in SeedsOf(session_state) :
        LET key   == session_state.current_question
            box   == <<key, j>>
            check == IF box \in session_state.check
                     THEN session_state.check \ {box}
                     ELSE session_state.check \cup {box}
            r     == Runs([session_state EXCEPT !.check = check], ghost,
                          NoClick(TEST, session_state.shuffle_questions),
                          seed, seed)
        IN  Commit(Recorded(r, key, SortedSeq({b[2] : b \in check})))

Next ==
    \/ Boot
    \/ Rerun
    \/ Start
    \/ Abort
    \/ Back
    \/ NextQuestion
    \/ Finish
    \/ Skip
    \/ Pick
    \/ Toggle

Spec == Init /\ [][Next]_vars

\* ------------------------------------------------------------ properties
\* the questions of a direct call of calculate_results, by 1-based position
CalcPositions == 1..Len(arg.test.questions)
CalcQuestion(k) == arg.test.questions[k]
CalcSelection(k) ==
    IF (k - 1) \in DOMAIN arg.user_answers THEN arg.user_answers[k - 1] ELSE <<>>

\* C1: a question of type single is marked correct if and only if the
\* selection has exactly one element and that element is the single member
\* of the question's correct_answers.
C1_SingleExactlyOne ==
    pc = "done" =>
        \A k \in CalcPositions :
            CalcQuestion(k).type = SINGLE =>
                (ret.answers[k].is_correct <=>
                    /\ Len(CalcSelection(k)) = 1
                    /\ Len(CalcQuestion(k).correct_answers) = 1
                    /\ CalcSelection(k)[1] = CalcQuestion(k).correct_answers[1])

\* a single question answered with two indices, the correct one among them,
\* is scored incorrect, next to one answered with exactly the correct index
C1_Witness ==
    /\ pc = "done"
    /\ \E k \in CalcPositions :
        /\ CalcQuestion(k).type = SINGLE
        /\ Len(CalcSelection(k)) = 2
        /\ CalcQuestion(k).correct_answers[1] \in Range(CalcSelection(k))
        /\ ~ret.answers[k].is_correct
    /\ \E k \in CalcPositions :
        /\ CalcQuestion(k).type = SINGLE
        /\ CalcSelection(k) = CalcQuestion(k).correct_answers
        /\ ret.answers[k].is_correct

\* C2: a question of type multiple is marked correct if and only if the
\* selection equals correct_answers as a set, and the score counts whole
\* questions only.
C2_MultipleSetEqual ==
    pc = "done" =>
        /\ \A k \in CalcPositions :
            CalcQuestion(k).type = MULTIPLE =>
                (ret.answers[k].is_correct <=>
                    Range(CalcSelection(k)) = Range(CalcQuestion(k).correct_answers))
        /\ ret.score =
            Cardinality({k \in CalcPositions :
                IF CalcQuestion(k).type = MULTIPLE
                THEN Range(CalcSelection(k)) = Range(CalcQuestion(k).correct_answers)
                ELSE ret.answers[k].is_correct})

\* a strict superset and a strict subset of the correct set, both scored
\* incorrect and adding nothing to the score
C2_Witness ==
    /\ pc = "done"
    /\ ret.score = 0
    /\ \E k \in CalcPositions :
        /\ CalcQuestion(k).type = MULTIPLE
        /\ Range(CalcQuestion(k).correct_answers) # Range(CalcSelection(k))
        /\ Range(CalcQuestion(k).correct_answers) \subseteq Range(CalcSelection(k))
        /\ ~ret.answers[k].is_correct
    /\ \E k \in CalcPositions :
        /\ CalcQuestion(k).type = MULTIPLE
        /\ Range(CalcSelection(k)) # {}
        /\ Range(CalcQuestion(k).correct_answers) # Range(CalcSelection(k))
        /\ Range(CalcSelection(k)) \subseteq Range(CalcQuestion(k).correct_answers)
        /\ ~ret.answers[k].is_correct

\* C3 as claimed: the selection recorded under q_<i>, which
\* calculate_results compares against the correct_answers of question i of
\* the original sequence, is the selection the taker made while question i
\* was displayed, with or without the shuffle option.
C3_KeyedByOriginalPosition ==
    (ghost.calls > 0 /\ session_state.test_completed) =>
        \A i \in DOMAIN ghost.shown : ghost.shown[i] = i

\* C4 as claimed: passed if and only if 100 * score / max_score, the exact
\* quotient, is at least passing_score.
C4_PassedIffAtLeast ==
    pc = "done" =>
        (ret.passed <=> 100 * arg.score >= arg.passing_score * arg.max_score)

\* C5: the call returns a TestResult for every answer mapping, and a
\* question whose position is absent from the mapping gets is_correct =
\* FALSE and an empty user_answer.
C5_AbsentIsWrong ==
    pc = "done" =>
        /\ DOMAIN ret.answers = CalcPositions
        /\ \A k \in CalcPositions :
            (k - 1) \notin DOMAIN arg.user_answers =>
                /\ ~ret.answers[k].is_correct
                /\ ret.answers[k].user_answer = <<>>

\* a call on two questions with a mapping that answers position 1 only,
\* and correctly: the first question is scored incorrect
C5_Witness ==
    /\ pc = "done"
    /\ Len(arg.test.questions) = 2
    /\ DOMAIN arg.user_answers = {1}
    /\ ret.answers[2].is_correct
    /\ ~ret.answers[1].is_correct

\* C6: max_score is the number of questions, answers has one entry per
\* question in the questions' order, each carrying the question's own
\* text, type, explanation and correct_answers, and score is the number of
\* entries with is_correct.
C6_ResultShape ==
    pc = "done" =>
        /\ ret.max_score = Len(arg.test.questions)
        /\ Len(ret.answers) = Len(arg.test.questions)
        /\ \A k \in CalcPositions :
            /\ ret.answers[k].question_text = CalcQuestion(k).text
            /\ ret.answers[k].question_type = CalcQuestion(k).type
            /\ ret.answers[k].explanation = CalcQuestion(k).explanation
            /\ ret.answers[k].correct_answer = CalcQuestion(k).correct_answers
        /\ ret.score = Cardinality({k \in CalcPositions : ret.answers[k].is_correct})
        /\ 0 <= ret.score
        /\ ret.score <= ret.max_score

\* two different questions, the second answered correctly and the first
\* with a selection that differs from its correct_answers
C6_Witness ==
    /\ pc = "done"
    /\ Len(arg.test.questions) = 2
    /\ CalcQuestion(1).type # CalcQuestion(2).type
    /\ CalcQuestion(1).correct_answers # CalcQuestion(2).correct_answers
    /\ 0 \in DOMAIN arg.user_answers
    /\ arg.user_answers[0] # CalcQuestion(1).correct_answers
    /\ ret.score = 1
    /\ ret.answers[2].is_correct

\* C7: every quiz of the loaded set has at least one question, a
\* passing_score in 0..100 (80 when the definition omits it), and in each
\* question at least two options, a non-empty correct_answers of indices of
\* options, and exactly one correct answer when its type is single; a
\* definition violating one of these is not loaded, and from the load on
\* the loaded set stays what load_all_tests returned.
C7_LoadedQuizzesValid ==
    /\ \A name \in DOMAIN session_state.tests :
        LET quiz == session_state.tests[name]
        IN  /\ Len(quiz.questions) >= 1
            /\ quiz.passing_score \in 0..100
            /\ \A k \in 1..Len(quiz.questions) :
                LET question == quiz.questions[k]
                IN  /\ Len(question.options) >= 2
                    /\ question.correct_answers # <<>>
                    /\ \A j \in 1..Len(question.correct_answers) :
                           question.correct_answers[j]
                               \in 0..(Len(question.options) - 1)
                    /\ question.type = SINGLE =>
                           Len(question.correct_answers) = 1
            /\ \E k \in 1..Len(exam) :
                /\ exam[k].name = name
                /\ exam[k].questions = quiz.questions
                /\ quiz.passing_score =
                       IF exam[k].passing_score = <<>> THEN 80
                       ELSE exam[k].passing_score[1]
    /\ ghost.loaded => session_state.tests = load_all_tests(exam)

\* a folder with a definition of a single question with two correct
\* answers next to a definition that omits passing_score: only the second
\* is loaded, with passing_score 80, and it is still the loaded set after a
\* shuffled attempt was started, answered and scored
C7_Witness ==
    /\ ghost.loaded
    /\ \E k \in 1..Len(exam) :
        /\ exam[k].questions # <<>>
        /\ exam[k].questions[1].type = SINGLE
        /\ Len(exam[k].questions[1].correct_answers) = 2
        /\ exam[k].name \notin DOMAIN session_state.tests
    /\ \E k \in 1..Len(exam) :
        /\ exam[k].passing_score = <<>>
        /\ exam[k].name \in DOMAIN session_state.tests
        /\ session_state.tests[exam[k].name].passing_score = 80
    /\ session_state.shuffle_questions
    /\ ghost.attempts > 0
    /\ session_state.test_results # <<>>

\* C8 as claimed: every definition of the folder that the schema accepts is
\* in the mapping load_all_tests returned, under its name, whatever the
\* other definitions and the order of the files.
C8_EveryValidDefinitionLoaded ==
    ghost.loaded =>
        \A k \in 1..Len(exam) :
            TestOk(exam[k]) =>
                /\ exam[k].name \in DOMAIN session_state.tests
                /\ session_state.tests[exam[k].name] = Test(exam[k])

\* C9 as claimed: each completed attempt has caused exactly one call of
\* calculate_results and one TestResult in test_results, and aborted or
\* unfinished attempts none.
C9_ScoredOncePerCompletedAttempt ==
    /\ ghost.calls = ghost.completed
    /\ Len(session_state.test_results) = ghost.completed

\* C11 as claimed: an attempt is completed only with a non-empty recorded
\* answer at every question position, so every TestResult of the history
\* has a non-empty user_answer for every question.
C11_CompletedMeansAllAnswered ==
    \A r \in 1..Len(session_state.test_results) :
        \A k \in 1..Len(session_state.test_results[r].answers) :
            session_state.test_results[r].answers[k].user_answer # <<>>

\* C12: while an attempt is in progress on a loaded quiz, current_question
\* is a position of its questions, 0 <= current_question <= len(questions)
\* - 1, after any start, next, back, skip, abort and restart, so
\* questions[current_question] is never out of range.
C12_CurrentQuestionInRange ==
    (session_state.test_started
        /\ session_state.current_test \in DOMAIN session_state.tests) =>
        /\ session_state.current_question >= 0
        /\ session_state.current_question <=
               Len(session_state.tests[session_state.current_test].questions) - 1

\* an attempt in progress on a quiz that is shorter than the position at
\* which the taker aborted the attempt before it
C12_Witness ==
    /\ session_state.test_started
    /\ session_state.current_test \in DOMAIN session_state.tests
    /\ screen.page = "question"
    /\ ghost.aborted # <<>>
    /\ ghost.aborted[1] >=
           Len(session_state.tests[session_state.current_test].questions)

====
